---- MODULE Spec2Model ----
(***************************************************************************)
(* rustatouille: the regeneration coordinator (regenerate::pages), the     *)
(* renderer (regenerate_index), the admin handlers that mutate the Store,  *)
(* the hot-reload tasks and the start-up sequence of real_main.            *)
(***************************************************************************)
EXTENDS Integers, Sequences, FiniteSets, TLC

\* ------------------------------------------------------------------ bounds
\* Number of admin requests the environment issues in one run.
MaxRequests == 1
\* Number of file-change events the watcher reports in one run.
MaxReloads == 2

\* Number of rows of `interventions`, and of `services`, a database holds when
\* the program starts on it.
MaxRows == 2
MaxServices == 1

\* Number of times the program is started on one database file.
MaxRuns == 3

\* ------------------------------------------------------- program constants
\* mpsc::channel(128)
ChanCap == 128

\* The handler tasks: two requests may be served concurrently; a request is
\* taken by h1 when h1 is free.
Handlers == {"h1", "h2"}

\* The `services` values of the intervention form (Vec<u64>).
SidChoices == {<<>>, <<1>>, <<1, 2>>}

\* The `start-date` and `severity` values of the intervention forms the admin
\* sends. The handler and the renderer copy them and never branch on them.
FormDates == {"1970-01-01T00:01"}
FormSeverities == {"full-outage"}

\* ------------------------------------------------- enum Status, Severity
Statuses == {"Planned", "Ongoing", "UnderSurveillance", "Identified", "Resolved"}
Severities == {"PartialOutage", "FullOutage", "PerformanceIssue"}

\* The Err of from_db_str (anyhow::bail!).
DecodeError == "Err"

\* (LowercaseName: an encoding derived from the variant's name, for comparison.)
LowercaseName(v) ==
    CASE v = "Planned" -> "planned"
      [] v = "Ongoing" -> "ongoing"
      [] v = "UnderSurveillance" -> "undersurveillance"
      [] v = "Identified" -> "identified"
      [] v = "Resolved" -> "resolved"

\* Status::to_db_str
StatusToDbStr(v) ==
    CASE v = "Planned" -> "planned"
      [] v = "Ongoing" -> "ongoing"
      [] v = "UnderSurveillance" -> "under_surveillance"
      [] v = "Identified" -> "identified"
      [] v = "Resolved" -> "resolved"

\* Status::from_db_str
StatusFromDbStr(s) ==
    CASE s = "planned" -> "Planned"
      [] s = "ongoing" -> "Ongoing"
      [] s = "under_surveillance" -> "UnderSurveillance"
      [] s = "identified" -> "Identified"
      [] s = "resolved" -> "Resolved"
      [] OTHER -> DecodeError

\* Severity::to_db_str
SeverityToDbStr(v) ==
    CASE v = "PartialOutage" -> "partial_outage"
      [] v = "FullOutage" -> "full_outage"
      [] v = "PerformanceIssue" -> "performance_issue"

\* Severity::from_db_str
SeverityFromDbStr(s) ==
    CASE s = "partial_outage" -> "PartialOutage"
      [] s = "full_outage" -> "FullOutage"
      [] s = "performance_issue" -> "PerformanceIssue"
      [] OTHER -> DecodeError

\* Severity::label
SeverityLabel(v) ==
    CASE v = "PartialOutage" -> "Partial outage"
      [] v = "FullOutage" -> "Full outage"
      [] v = "PerformanceIssue" -> "Performance issue"

\* Intervention::is_ongoing, Intervention::is_planned
IsOngoing(int) == int.status = "Ongoing"
IsPlanned(int) == int.status = "Planned"

VARIABLES
    mainpc,        \* position of real_main: "copy", "send", "serve", "exit"
    devServer,     \* AppConfig.dev_server
    chan,          \* number of () messages buffered in the regenerate channel
    closed,        \* every Sender of the channel has been dropped
    start,         \* pages(): the local `start`
    cdone,         \* pages() has returned
    rpc,           \* position of the regenerate_all future held by select!
    r,             \* locals of regenerate_index
    live,          \* number of regenerate_all futures that exist
    lastRes,       \* what the last render that completed returned
    nStart,        \* renders first polled since the last completed render
    nRecvFlight,   \* signals received, since then, while a render was in flight
    dbLock,        \* holder of AppContext.db_connection (tokio Mutex)
    tlock,         \* state of AppContext.templates (std RwLock)
    services,      \* table services: the set of ids
    interventions, \* table interventions: rows in insertion order
    assoc,         \* table interventions_services: rows in insertion order
    files,         \* the files of cache_dir, by path
    hpc,           \* position of each handler task
    hreq,          \* the request each handler task is serving
    nreq,          \* admin requests received so far
    hr,            \* hot-reload tasks (spawn_blocking) per stage
    nreload,       \* watcher events handled so far
    schema,        \* the database file: its tables and the rows of `migrations`
    mig            \* db::open: the position and locals of run_migrations

vars == <<mainpc, devServer, chan, closed, start, cdone, rpc, r, live, lastRes,
          nStart, nRecvFlight, dbLock, tlock, services, interventions, assoc,
          files, hpc, hreq, nreq, hr, nreload, schema, mig>>

coordVars == <<start, cdone, rpc, r, live, lastRes, nStart, nRecvFlight>>
storeVars == <<services, interventions, assoc>>
handlerVars == <<hpc, hreq, nreq>>
reloadVars == <<hr, nreload>>
dbVars == <<schema, mig>>

\* ------------------------------------------------------------------- files
\* cache_dir.join("index.html")
IndexPath == <<"index.html", 0>>
\* cache_dir.join(file_name) for the .css and .js files of template_dir
StaticPath == <<"static", 0>>
\* cache_dir.join(format!("{id}.html"))
InterventionPath(id) == <<"id.html", id>>

Paths == {IndexPath, StaticPath} \cup {InterventionPath(i) : i \in 1..MaxRequests}

\* A file is what a reader gets: its kind, and for a page the view model the
\* template was rendered from (RegenerateIndexCtx).
File(kind, services_ctx, interventions_ctx, current) ==
    [kind |-> kind, services |-> services_ctx, interventions |-> interventions_ctx,
     current_interventions |-> current]

NoFile == File("none", <<>>, <<>>, <<>>)
\* What fs::write leaves between creating/truncating the file and writing it.
TruncatedFile == File("empty", <<>>, <<>>, <<>>)
StaticFile == File("static", <<>>, <<>>, <<>>)
\* The page create_intervention builds from the request: title, description
\* and date of the intervention.
DetailPage(req) ==
    File("detail", <<>>, <<[id |-> req.id, start_date |-> req.start_date]>>, <<>>)

WriteFile(fs, path, content) == [fs EXCEPT ![path] = content]

\* controllers::static::get_root: 404 when cache_dir has no index.html, else
\* serve_static answers with what fs::read_to_string reads at that moment.
GetRoot(fs) ==
    IF fs[IndexPath].kind = "none" THEN [status |-> 404, body |-> NoFile]
    ELSE [status |-> 200, body |-> fs[IndexPath]]

\* ------------------------------------------------------- renderer's locals
NoRender == [svc |-> <<>>, ints |-> <<>>, k |-> 0, ctx |-> <<>>,
             before |-> NoFile, content |-> NoFile, tera |-> 0]

\* No request is being served; `code` is the status of the last response.
NoRequest == [kind |-> "none", sids |-> <<>>, id |-> 0, start_date |-> 0,
              severity |-> "none", code |-> 0]

\* ------------------------------------------------------------ the database
\* The tables of migration 1, in the order of their CREATE TABLE.
SchemaTables == <<"services", "interventions", "interventions_services",
                  "comments", "interventions_comments">>

\* A database file that did not exist, and one that migration 1 has completed.
FreshDb == [tables |-> {}, versions |-> <<>>]
MigratedDb ==
    [tables |-> {"migrations"} \cup {SchemaTables[k] : k \in 1..Len(SchemaTables)},
     versions |-> <<1>>]

\* No run of the migrations is under way. `latest` is latest_version, `k` the
\* next table to create, `stmts` the CREATE, INSERT and UPDATE statements the
\* run has issued, `before` the database as the run found it, `res` what the
\* last run returned.
NoRun == [pc |-> "idle", nrun |-> 0, latest |-> 0, k |-> 0, stmts |-> 0,
          before |-> FreshDb, res |-> "none"]

\* db::open has returned Ok: the program runs on a migrated database.
Opened == schema = MigratedDb /\ mig = NoRun

\* The tasks and the cache directory when real_main has spawned pages().
InitTasks ==
    /\ mainpc = "copy"
    /\ chan = 0
    /\ closed = FALSE
    /\ start = FALSE
    /\ cdone = FALSE
    /\ rpc = "none"
    /\ r = NoRender
    /\ live = 0
    /\ lastRes = "none"
    /\ nStart = 0
    /\ nRecvFlight = 0
    /\ dbLock = "free"
    /\ tlock = "free"
    /\ files = [p \in Paths |-> NoFile]
    /\ hpc = [h \in Handlers |-> "idle"]
    /\ hreq = [h \in Handlers |-> NoRequest]
    /\ nreq = 0
    /\ hr = [wlock |-> 0, reloading |-> 0, send |-> 0]
    /\ nreload = 0

\* A first run: db::open creates the tables, which are empty.
Init ==
    /\ InitTasks
    /\ Opened
    /\ devServer \in BOOLEAN
    /\ services = {}
    /\ interventions = <<>>
    /\ assoc = <<>>

\* The tokio runtime is alive: real_main has not returned an error.
Running == mainpc # "exit"

\* --------------------------------------------------- AppContext.templates
\* The Tera instance inside the RwLock, named by the number of full_reload()
\* calls that have returned: 0 is what Tera::new loaded.
Templates == nreload - hr.wlock - hr.reloading

\* (SharedWithReaders: a lock that lets a writer in beside a reader, for
\* comparison.)
SharedWithReaders(l) == l # "write"

\* RwLock::write() returns when no guard, read or write, is held.
WriteLockable(l) == l = "free"

\* ------------------------------------------------ AppContext.db_connection
\* (AlwaysLockable: a connection handed to whoever asks, for comparison.)
AlwaysLockable(l) == TRUE

\* Mutex::lock().await returns when no guard is held.
MutexLockable(l) == l = "free"

\* ----------------------------------------------------------- Store queries
\* Service::get_all: the rows of `services` (their ids), in table order.
ServiceGetAll ==
    [i \in 1..Cardinality(services) |->
        CHOOSE s \in services : Cardinality({t \in services : t < s}) = i - 1]

\* FromRow for Intervention: the status and severity columns are decoded with
\* from_db_str(..).unwrap().
FromRow(row) ==
    [id |-> row.id, status |-> StatusFromDbStr(row.status),
     severity |-> SeverityFromDbStr(row.severity), start_date |-> row.start_date]

\* Both unwrap() of from_row succeed.
Decodable(row) ==
    /\ StatusFromDbStr(row.status) # DecodeError
    /\ SeverityFromDbStr(row.severity) # DecodeError

\* Intervention::get_all: SELECT * FROM interventions, in table order.
InterventionGetAll == [i \in 1..Len(interventions) |-> FromRow(interventions[i])]

\* Intervention::get_service_ids: the join of services, interventions_services
\* and interventions for one intervention id, in table order.
GetServiceIds(id) ==
    LET rows == SelectSeq(assoc, LAMBDA a : a.iid = id /\ a.sid \in services
                                            /\ \E i \in 1..Len(interventions) :
                                                  interventions[i].id = id)
    IN  [i \in 1..Len(rows) |-> rows[i].sid]

\* services.iter().find(|service| service.id.unwrap() == service_id.0)
FindService(svc, sid) == \E i \in 1..Len(svc) : svc[i] = sid

\* The positions of a list of service ids that find() does not resolve.
Unresolved(svc, sids) == {i \in 1..Len(sids) : ~FindService(svc, sids[i])}

\* RETURNING id of an INSERT: ids are assigned 1, 2, ...
NextServiceId == Cardinality(services) + 1
NextInterventionId == Len(interventions) + 1

\* --------------------------------------------------------------- renderer
\* InterventionCtx of one intervention and the ids of its affected services.
InterventionCtx(int, sids) ==
    [id |-> int.id, start_date |-> int.start_date,
     severity |-> SeverityLabel(int.severity), services |-> sids]

\* The number of times `x` occurs in `seq`.
Count(seq, x) == Cardinality({j \in 1..Len(seq) : seq[j] = x})

\* (PushFront: the reverse index built by inserting at the head, for
\* comparison.)
RECURSIVE PushFront(_, _, _)
PushFront(rr, sid, n) ==
    IF n = 0 THEN <<>>
    ELSE [j \in 1..Count(rr.ctx[n].services, sid) |-> rr.ints[n]]
            \o PushFront(rr, sid, n - 1)

\* intervention_by_service[sid] after the first n turns of the loop: every
\* turn pushes the intervention once for each affected service id.
RECURSIVE InterventionByService(_, _, _)
InterventionByService(rr, sid, n) ==
    IF n = 0 THEN <<>>
    ELSE InterventionByService(rr, sid, n - 1)
            \o [j \in 1..Count(rr.ctx[n].services, sid) |-> rr.ints[n]]

\* ShortInterventionCtx of each intervention of a list.
Short(ints) == [j \in 1..Len(ints) |-> [id |-> ints[j].id,
                                         start_date |-> ints[j].start_date]]

\* (WarningFirst: the two tests in the other order, for comparison.)
WarningFirst(planned, ongoing) ==
    IF planned # <<>> THEN "warning"
    ELSE IF ongoing # <<>> THEN "error"
    ELSE "success"

\* section_class of a service from its planned and ongoing interventions.
SectionClass(planned, ongoing) ==
    IF ongoing # <<>> THEN "error"
    ELSE IF planned # <<>> THEN "warning"
    ELSE "success"

\* ServiceCtx of one service.
ServiceCtx(rr, sid) ==
    LET by == InterventionByService(rr, sid, Len(rr.ctx))
        planned == SelectSeq(by, IsPlanned)
        ongoing == SelectSeq(by, IsOngoing)
    IN  [id |-> sid, section_class |-> SectionClass(planned, ongoing),
         planned |-> Short(planned), ongoing |-> Short(ongoing)]

\* (StampedContent: a page that also shows how many renders were started for
\* it, for comparison.)
StampedContent(rr) ==
    File("page", <<nStart>>, rr.ctx, <<>>)

\* The view model handed to the index.html template, and so the file written:
\* services_ctx, interventions_ctx and the ongoing ones of interventions_ctx.
IndexContent(rr) ==
    LET cur == {i \in 1..Len(rr.ctx) : IsOngoing(rr.ints[i])}
        pick(i) == i \in cur
        idx == SelectSeq([i \in 1..Len(rr.ctx) |-> i], pick)
    IN  File("page",
             [i \in 1..Len(rr.svc) |-> ServiceCtx(rr, rr.svc[i])],
             rr.ctx,
             [j \in 1..Len(idx) |-> rr.ctx[idx[j]]])

\* Where the select! in pages() can observe a signal: the regenerate_all
\* future is either not polled yet or suspended at one of its .await points.
\* (EveryPoint: a render that could be dropped anywhere, for comparison.)
EveryPoint == {"created", "lock", "services", "interventions", "assoc",
               "template", "rendering", "write", "writing"}
\* (AlsoWhileWriting: a render that could also be dropped inside fs::write,
\* for comparison.)
AlsoWhileWriting == {"created", "lock", "services", "interventions", "assoc",
                     "writing"}
AwaitPoints == {"created", "lock", "services", "interventions", "assoc"}

\* A render that has been polled and has not finished.
InFlight == rpc \notin {"none", "created"}

\* select! drops the future of the branch that lost.
\* (KeepRender: the future outliving the select!, for comparison.)
KeepRender(n) == n
DropRender(n) == n - 1

\* (LeakedGuard: a guard that outlives the future that took it, for
\* comparison.)
LeakedGuard == dbLock

\* The MutexGuard `conn` is dropped with the future.
UnlockedByDrop == IF dbLock = "render" THEN "free" ELSE dbLock

\* What regenerate_all returns: Ok(()) or an anyhow::Error, here named by the
\* statement whose `?` returned it.
Results == {"ok", "store", "unknown service", "template", "io"}

\* What the coordinator does when regenerate_all returns `res`.
\* (StopOnError: a loop that ends on the first error; RestartAlways: a loop
\* that never leaves the rendering state; both for comparison.)
StopOnError(res) == [start |-> FALSE, cdone |-> res # "ok"]
RestartAlways(res) == [start |-> TRUE, cdone |-> FALSE]
AfterRender(res) == [start |-> FALSE, cdone |-> FALSE]

\* cache_dir after a pass that returned, with `?`, before fs::write.
\* (TruncatedByFailure: index.html created before the Store is read, for
\* comparison.)
TruncatedByFailure(fs) == WriteFile(fs, IndexPath, TruncatedFile)
CacheAfterEarlyReturn(fs) == fs

\* A panic inside the pass unwinds the coordinator's task: its locals are
\* dropped (the MutexGuard too) and pages() is over.
Panic ==
    /\ rpc' = "none"
    /\ r' = NoRender
    /\ live' = live - 1
    /\ dbLock' = UnlockedByDrop
    /\ cdone' = TRUE
    /\ lastRes' = "panic"
    /\ UNCHANGED <<start, nStart, nRecvFlight, files>>

\* regenerate_all returned `res` to the second arm of the select!.
Complete(res, fs) ==
    /\ rpc' = "none"
    /\ r' = NoRender
    /\ live' = live - 1
    /\ dbLock' = UnlockedByDrop
    /\ start' = AfterRender(res).start
    /\ cdone' = AfterRender(res).cdone
    /\ lastRes' = res
    /\ nStart' = 0
    /\ nRecvFlight' = 0
    /\ files' = fs

\* -------------------------------------------------------- pages(): the loop
\* else branch: receiver.recv().await returned Some(()).
IdleRecv ==
    /\ Running /\ ~cdone /\ ~start
    /\ chan > 0
    /\ chan' = chan - 1
    /\ start' = TRUE
    /\ UNCHANGED <<mainpc, devServer, dbVars, closed, cdone, rpc, r, live, lastRes, nStart,
                   nRecvFlight, dbLock, tlock, storeVars, files, handlerVars,
                   reloadVars>>

\* if start { select! { ... } }: the regenerate_all(&app) future is built.
EnterSelect ==
    /\ Running /\ ~cdone /\ start
    /\ rpc = "none"
    /\ rpc' = "created"
    /\ live' = live + 1
    /\ UNCHANGED <<mainpc, devServer, dbVars, chan, closed, start, cdone, r, lastRes, nStart,
                   nRecvFlight, dbLock, tlock, storeVars, files, handlerVars,
                   reloadVars>>

\* The recv() arm: `start = true; continue;`, which leaves the select! and so
\* drops the regenerate_all future wherever it was.
\* (KeepPosition: a render that goes on after the signal; ForgetSignal: a
\* signal that requests nothing; both for comparison.)
KeepPosition(pc) == [start |-> TRUE, rpc |-> pc]
ForgetSignal(pc) == [start |-> FALSE, rpc |-> "none"]
RecvArm(pc) == [start |-> TRUE, rpc |-> "none"]

\* First arm of the biased select!: recv() is ready with Some(()).
SelectRecv ==
    /\ Running /\ ~cdone /\ start
    /\ rpc \in AwaitPoints
    /\ chan > 0
    /\ chan' = chan - 1
    /\ start' = RecvArm(rpc).start
    /\ rpc' = RecvArm(rpc).rpc
    /\ r' = IF RecvArm(rpc).rpc = "none" THEN NoRender ELSE r
    /\ live' = DropRender(live)
    /\ dbLock' = IF RecvArm(rpc).rpc = "none" THEN UnlockedByDrop ELSE dbLock
    /\ nRecvFlight' = IF InFlight THEN nRecvFlight + 1 ELSE nRecvFlight
    /\ UNCHANGED <<mainpc, devServer, dbVars, closed, cdone, lastRes, nStart, tlock,
                   storeVars, files, handlerVars, reloadVars>>

\* (PollFirst: a select! that polls regenerate_all whatever recv() says, for
\* comparison.)
PollFirst == TRUE

\* The recv() arm is pending, so the select! polls regenerate_all.
RecvPending == chan = 0 /\ ~closed

\* First poll of regenerate_all: regenerate_index asks for the db mutex.
RenderStart ==
    /\ Running /\ ~cdone /\ start
    /\ rpc = "created"
    /\ RecvPending
    /\ rpc' = "lock"
    /\ r' = [NoRender EXCEPT !.before = files[IndexPath]]
    /\ nStart' = nStart + 1
    /\ UNCHANGED <<mainpc, devServer, dbVars, chan, closed, start, cdone, live, lastRes,
                   nRecvFlight, dbLock, tlock, storeVars, files, handlerVars,
                   reloadVars>>

\* ctx.db_connection.lock().await
RenderLock ==
    /\ Running /\ ~cdone /\ start
    /\ rpc = "lock"
    /\ RecvPending
    /\ MutexLockable(dbLock)
    /\ dbLock' = "render"
    /\ rpc' = "services"
    /\ UNCHANGED <<mainpc, devServer, dbVars, chan, closed, start, cdone, r, live, lastRes,
                   nStart, nRecvFlight, tlock, storeVars, files, handlerVars,
                   reloadVars>>

\* Service::get_all(&mut conn).await?
RenderServices ==
    /\ Running /\ ~cdone /\ start
    /\ rpc = "services"
    /\ RecvPending
    /\ \/ /\ r' = [r EXCEPT !.svc = ServiceGetAll]
          /\ rpc' = "interventions"
          /\ UNCHANGED <<start, cdone, live, lastRes, nStart, nRecvFlight, dbLock,
                         files>>
       \/ Complete("store", CacheAfterEarlyReturn(files))
    /\ UNCHANGED <<mainpc, devServer, dbVars, chan, closed, tlock, storeVars, handlerVars,
                   reloadVars>>

\* Intervention::get_all(&mut conn).await?  from_row panics on a row it cannot
\* decode. With no intervention the loop body never runs and the pass goes on,
\* without suspending, to the template.
RenderInterventions ==
    /\ Running /\ ~cdone /\ start
    /\ rpc = "interventions"
    /\ RecvPending
    /\ \/ /\ \A i \in 1..Len(interventions) : Decodable(interventions[i])
          /\ r' = [r EXCEPT !.ints = InterventionGetAll]
          /\ rpc' = IF Len(InterventionGetAll) = 0 THEN "template" ELSE "assoc"
          /\ UNCHANGED <<start, cdone, live, lastRes, nStart, nRecvFlight, dbLock,
                         files>>
       \/ Complete("store", CacheAfterEarlyReturn(files))
       \/ /\ \E i \in 1..Len(interventions) : ~Decodable(interventions[i])
          /\ Panic
    /\ UNCHANGED <<mainpc, devServer, dbVars, chan, closed, tlock, storeVars, handlerVars,
                   reloadVars>>

\* One turn of `for intervention in &interventions`: get_service_ids(..).await?
\* then the names of the affected services, each looked up with find() and
\* `.context("unknown service ..")?`.
RenderAssoc ==
    /\ Running /\ ~cdone /\ start
    /\ rpc = "assoc"
    /\ RecvPending
    /\ LET row == r.ints[r.k + 1]
           sids == GetServiceIds(row.id)
       IN  \/ Complete("store", CacheAfterEarlyReturn(files))
           \/ /\ Unresolved(r.svc, sids) # {}
              /\ Complete("unknown service", CacheAfterEarlyReturn(files))
           \/ /\ Unresolved(r.svc, sids) = {}
              /\ r' = [r EXCEPT !.k = r.k + 1,
                                !.ctx = Append(r.ctx, InterventionCtx(row, sids))]
              /\ rpc' = IF r.k + 1 = Len(r.ints) THEN "template" ELSE "assoc"
              /\ UNCHANGED <<start, cdone, live, lastRes, nStart, nRecvFlight,
                             dbLock, files>>
    /\ UNCHANGED <<mainpc, devServer, dbVars, chan, closed, tlock, storeVars, handlerVars,
                   reloadVars>>

\* ctx.templates.read().unwrap(): std RwLock, blocks the coordinator's thread
\* while a reload holds the write lock. From here to its end the pass does not
\* suspend, so the select! cannot observe a signal.
RenderReadLock ==
    /\ Running /\ ~cdone /\ start
    /\ rpc = "template"
    /\ tlock = "free"
    /\ tlock' = "read"
    /\ rpc' = "rendering"
    /\ r' = [r EXCEPT !.tera = Templates]
    /\ UNCHANGED <<mainpc, devServer, dbVars, chan, closed, start, cdone, live, lastRes,
                   nStart, nRecvFlight, dbLock, storeVars, files, handlerVars,
                   reloadVars>>

\* .render("index.html", &index_ctx)?  The read guard is a temporary of the
\* statement and is released when it ends.
RenderTera ==
    /\ Running /\ ~cdone /\ start
    /\ rpc = "rendering"
    /\ tlock' = "free"
    /\ \/ /\ r' = [r EXCEPT !.content = IndexContent(r)]
          /\ rpc' = "write"
          /\ UNCHANGED <<start, cdone, live, lastRes, nStart, nRecvFlight, dbLock,
                         files>>
       \/ Complete("template", CacheAfterEarlyReturn(files))
    /\ UNCHANGED <<mainpc, devServer, dbVars, chan, closed, storeVars, handlerVars,
                   reloadVars>>

\* fs::write(cache_dir.join("index.html"), ..)?: File::create truncates the
\* file, or fails and leaves it as it was.
RenderWriteOpen ==
    /\ Running /\ ~cdone /\ start
    /\ rpc = "write"
    /\ \/ /\ files' = WriteFile(files, IndexPath, TruncatedFile)
          /\ rpc' = "writing"
          /\ UNCHANGED <<start, cdone, r, live, lastRes, nStart, nRecvFlight,
                         dbLock>>
       \/ Complete("io", files)
    /\ UNCHANGED <<mainpc, devServer, dbVars, chan, closed, tlock, storeVars, handlerVars,
                   reloadVars>>

\* fs::write: write_all of the rendered page, or an I/O error half way.
RenderWriteData ==
    /\ Running /\ ~cdone /\ start
    /\ rpc = "writing"
    /\ \/ Complete("ok", WriteFile(files, IndexPath, r.content))
       \/ Complete("io", files)
    /\ UNCHANGED <<mainpc, devServer, dbVars, chan, closed, tlock, storeVars, handlerVars,
                   reloadVars>>

\* The steps of one poll after the other of regenerate_all.
RenderPass ==
    \/ RenderStart
    \/ RenderLock
    \/ RenderServices
    \/ RenderInterventions
    \/ RenderAssoc
    \/ RenderReadLock
    \/ RenderTera
    \/ RenderWriteOpen
    \/ RenderWriteData

Coordinator ==
    \/ IdleRecv
    \/ EnterSelect
    \/ SelectRecv
    \/ RenderPass

\* ------------------------------------------------------------- real_main
\* copy_static_files_to_cache_dir(&ctx.config)?  The coordinator task is
\* already spawned.
MainCopy ==
    /\ mainpc = "copy"
    /\ \/ /\ files' = WriteFile(files, StaticPath, StaticFile)
          /\ mainpc' = "send"
       \/ /\ UNCHANGED files
          /\ mainpc' = "exit"
    /\ UNCHANGED <<devServer, dbVars, chan, closed, coordVars, dbLock, tlock, storeVars,
                   handlerVars, reloadVars>>

\* (ServeWithoutSignal: a start-up that goes on to serve without sending, for
\* comparison.)
ServeWithoutSignal ==
    /\ mainpc = "send"
    /\ mainpc' = "serve"
    /\ UNCHANGED <<devServer, dbVars, chan, closed, coordVars, dbLock, tlock, storeVars,
                   files, handlerVars, reloadVars>>

\* ctx.regenerate_pages.send(()).await?
MainSend ==
    /\ mainpc = "send"
    /\ chan < ChanCap
    /\ chan' = chan + 1
    /\ mainpc' = "serve"
    /\ UNCHANGED <<devServer, dbVars, closed, coordVars, dbLock, tlock, storeVars, files,
                   handlerVars, reloadVars>>

Main == MainCopy \/ MainSend

\* --------------------------------------------------------- admin handlers
\* A handler returns the response with status `code`; the task is free again.
Respond(h, code) ==
    /\ hpc' = [hpc EXCEPT ![h] = "idle"]
    /\ hreq' = [hreq EXCEPT ![h] = [NoRequest EXCEPT !.code = code]]

\* The server is accepting requests and the environment still has one to send.
Accepting(h) ==
    /\ mainpc = "serve"
    /\ hpc[h] = "idle"
    /\ h = "h2" => hpc["h1"] # "idle"
    /\ nreq < MaxRequests

\* POST /admin/api/service: the form is parsed by axum, then the handler asks
\* for the db mutex.
CreateServiceBegin(h) ==
    /\ Accepting(h)
    /\ hpc' = [hpc EXCEPT ![h] = "lock"]
    /\ hreq' = [hreq EXCEPT ![h] = [NoRequest EXCEPT !.kind = "service"]]
    /\ nreq' = nreq + 1
    /\ UNCHANGED <<mainpc, devServer, dbVars, chan, closed, coordVars, dbLock, tlock,
                   storeVars, files, reloadVars>>

\* A form body, by field: what the last pair with that key carries ("missing"
\* when there is none, "bad" for a value that does not parse), and the values
\* of the `services` pairs in order.
AllForms ==
    [title : {"missing", "ok"},
     description : {"missing", "ok"},
     start_date : {"missing", "bad"} \cup FormDates,
     estimated_duration : {"missing", "bad", "ok"},
     severity : {"missing", "bogus", "partial-outage", "full-outage",
                 "performance-issue"},
     services : SidChoices \cup {<<-1>>, <<1, -1>>}]

\* The forms of the admin's requests: the complete ones, and one with a
\* severity that is none of the three.
Forms ==
    {f \in AllForms :
        /\ f.title = "ok" /\ f.description = "ok" /\ f.estimated_duration = "ok"
        /\ f.start_date \in FormDates
        /\ f.services \in SidChoices
        /\ f.severity \in FormSeverities \cup {"bogus"}
        /\ f.severity = "bogus" => f.services = <<>>}

\* The Err of FormIntervention::try_from.
FormError == [ok |-> FALSE, sids |-> <<>>, start_date |-> 0, severity |-> "none"]

\* The match on the value of `severity`.
ParseSeverity(val) ==
    CASE val = "partial-outage" -> "PartialOutage"
      [] val = "full-outage" -> "FullOutage"
      [] val = "performance-issue" -> "PerformanceIssue"
      [] OTHER -> "invalid severity"

\* NaiveDateTime::parse_from_str(&val, "%Y-%m-%dT%H:%M"), in minutes since the
\* epoch; 0 stands for its Err.
ParseDate(val) == IF val = "1970-01-01T00:01" THEN 1 ELSE 0

\* val.parse() of a `services` value into u64.
ParsesAsU64(val) == val >= 0

\* (DefaultSeverity: a parser that fills in a severity that is missing, for
\* comparison.)
DefaultSeverity(form) ==
    IF \/ form.start_date # "missing" /\ ParseDate(form.start_date) = 0
       \/ form.estimated_duration = "bad"
       \/ /\ form.severity # "missing"
          /\ ParseSeverity(form.severity) = "invalid severity"
       \/ \E i \in 1..Len(form.services) : ~ParsesAsU64(form.services[i])
       \/ "missing" \in {form.title, form.description, form.start_date,
                          form.estimated_duration}
    THEN FormError
    ELSE [ok |-> TRUE, sids |-> form.services,
          start_date |-> ParseDate(form.start_date),
          severity |-> IF form.severity = "missing" THEN "PartialOutage"
                       ELSE ParseSeverity(form.severity)]

\* FormIntervention::try_from: the loop over the pairs returns the first parse
\* error (start-date, estimated-duration, services) or "invalid severity";
\* then each of the five fields must have been seen.
TryFrom(form) ==
    IF \/ form.start_date # "missing" /\ ParseDate(form.start_date) = 0
       \/ form.estimated_duration = "bad"
       \/ /\ form.severity # "missing"
          /\ ParseSeverity(form.severity) = "invalid severity"
       \/ \E i \in 1..Len(form.services) : ~ParsesAsU64(form.services[i])
    THEN FormError
    ELSE IF "missing" \in {form.title, form.description, form.start_date,
                            form.estimated_duration, form.severity}
    THEN FormError
    ELSE [ok |-> TRUE, sids |-> form.services,
          start_date |-> ParseDate(form.start_date),
          severity |-> ParseSeverity(form.severity)]

\* POST /admin/api/intervention with a body of `forms`: when try_from fails
\* the handler answers 400, else it goes on with the payload.
CreateInterventionPost(h, forms) ==
    /\ Accepting(h)
    /\ nreq' = nreq + 1
    /\ \E form \in forms :
          IF ~TryFrom(form).ok
          THEN Respond(h, 400)
          ELSE /\ hpc' = [hpc EXCEPT ![h] = "lock"]
               /\ hreq' = [hreq EXCEPT ![h] =
                              [kind |-> "intervention",
                               sids |-> TryFrom(form).sids, id |-> 0,
                               start_date |-> TryFrom(form).start_date,
                               severity |-> TryFrom(form).severity, code |-> 0]]
    /\ UNCHANGED <<mainpc, devServer, dbVars, chan, closed, coordVars, dbLock, tlock,
                   storeVars, files, reloadVars>>

CreateInterventionBegin(h) == CreateInterventionPost(h, Forms)

\* GET /admin: the handler asks for the db mutex.
IndexBegin(h) ==
    /\ Accepting(h)
    /\ hpc' = [hpc EXCEPT ![h] = "lock"]
    /\ hreq' = [hreq EXCEPT ![h] = [NoRequest EXCEPT !.kind = "index"]]
    /\ nreq' = nreq + 1
    /\ UNCHANGED <<mainpc, devServer, dbVars, chan, closed, coordVars, dbLock, tlock,
                   storeVars, files, reloadVars>>

\* GET /admin/intervention/new: the handler asks for the db mutex.
CreateInterventionFormBegin(h) ==
    /\ Accepting(h)
    /\ hpc' = [hpc EXCEPT ![h] = "lock"]
    /\ hreq' = [hreq EXCEPT ![h] = [NoRequest EXCEPT !.kind = "form"]]
    /\ nreq' = nreq + 1
    /\ UNCHANGED <<mainpc, devServer, dbVars, chan, closed, coordVars, dbLock, tlock,
                   storeVars, files, reloadVars>>

\* The first statement a handler runs with the guard.
FirstQuery(kind) == IF kind \in {"index", "form"} THEN "services" ELSE "insert"

\* ctx.db_connection.lock().await
HandlerLock(h) ==
    /\ Running
    /\ hpc[h] = "lock"
    /\ MutexLockable(dbLock)
    /\ dbLock' = h
    /\ hpc' = [hpc EXCEPT ![h] = FirstQuery(hreq[h].kind)]
    /\ UNCHANGED <<mainpc, devServer, dbVars, chan, closed, coordVars, tlock, storeVars,
                   files, hreq, nreq, reloadVars>>

\* index: Service::get_with_num_interventions, try500!.
IndexServices(h) ==
    /\ Running
    /\ hpc[h] = "services" /\ hreq[h].kind = "index"
    /\ \/ /\ hpc' = [hpc EXCEPT ![h] = "interventions"]
          /\ UNCHANGED <<dbLock, hreq>>
       \/ /\ dbLock' = "free"
          /\ Respond(h, 500)
    /\ UNCHANGED <<mainpc, devServer, dbVars, chan, closed, coordVars, tlock, storeVars,
                   files, nreq, reloadVars>>

\* index: Intervention::get_all, try500!, the guard is dropped; then the
\* admin.html template is evaluated (try500!) and the page is the answer.
IndexInterventions(h) ==
    /\ Running
    /\ hpc[h] = "interventions"
    /\ dbLock' = "free"
    /\ Respond(h, 200) \/ Respond(h, 500)
    /\ UNCHANGED <<mainpc, devServer, dbVars, chan, closed, coordVars, tlock, storeVars,
                   files, nreq, reloadVars>>

\* create_intervention_form: Service::get_all, try500!, the guard is dropped;
\* the page lists the services.
CreateInterventionFormServices(h) ==
    /\ Running
    /\ hpc[h] = "services" /\ hreq[h].kind = "form"
    /\ dbLock' = "free"
    /\ Respond(h, 200) \/ Respond(h, 500)
    /\ UNCHANGED <<mainpc, devServer, dbVars, chan, closed, coordVars, tlock, storeVars,
                   files, nreq, reloadVars>>

\* create_service: Service::insert, try500!, the guard is dropped, redirect.
\* The handler returns without touching ctx.regenerate_pages.
CreateServiceInsert(h) ==
    /\ Running
    /\ hpc[h] = "insert" /\ hreq[h].kind = "service"
    /\ dbLock' = "free"
    /\ \/ /\ services' = services \cup {NextServiceId}
          /\ Respond(h, 302)
       \/ /\ UNCHANGED services
          /\ Respond(h, 500)
    /\ UNCHANGED <<mainpc, devServer, dbVars, chan, closed, coordVars, tlock, interventions,
                   assoc, files, nreq, reloadVars>>

\* (ReleasedAfterInsert: a guard dropped before the loop over the services,
\* for comparison.)
ReleasedAfterInsert(sids) == FALSE

\* The block of create_intervention that owns the guard contains the loop over
\* payload.services: after the insert the guard is still needed when there is
\* a service id to handle.
HeldForServices(sids) == sids # <<>>

\* create_intervention: Intervention::insert with Status::Identified.
CreateInterventionInsert(h) ==
    /\ Running
    /\ hpc[h] = "insert" /\ hreq[h].kind = "intervention"
    /\ \/ /\ interventions' = Append(interventions,
                                     [id |-> NextInterventionId,
                                      status |-> StatusToDbStr("Identified"),
                                      severity |-> SeverityToDbStr(hreq[h].severity),
                                      start_date |-> hreq[h].start_date])
          /\ hreq' = [hreq EXCEPT ![h].id = NextInterventionId]
          /\ hpc' = [hpc EXCEPT ![h] = IF hreq[h].sids = <<>> THEN "page"
                                       ELSE "assoc"]
          /\ dbLock' = IF HeldForServices(hreq[h].sids) THEN dbLock ELSE "free"
       \/ /\ UNCHANGED interventions
          /\ dbLock' = "free"
          /\ Respond(h, 500)
    /\ UNCHANGED <<mainpc, devServer, dbVars, chan, closed, coordVars, tlock, services,
                   assoc, files, nreq, reloadVars>>

\* (RolledBack: a handler that undoes its associations before answering 404,
\* for comparison.)
RolledBack(rows, id) == SelectSeq(rows, LAMBDA a : a.iid # id)

\* interventions_services when the handler returns not_found(..): the
\* statements already executed are not undone.
AfterNotFound(rows, id) == rows

\* One turn of `for sid in payload.services`: Service::by_id (try500!, 404 when
\* there is no such service), then add_service, whose error is only logged.
\* The guard is dropped after the last turn.
CreateInterventionAssoc(h) ==
    /\ Running
    /\ hpc[h] = "assoc"
    /\ LET sid == Head(hreq[h].sids)
           rest == Tail(hreq[h].sids)
       IN  \/ /\ UNCHANGED assoc
              /\ dbLock' = "free"
              /\ Respond(h, 500)
           \/ /\ sid \notin services
              /\ assoc' = AfterNotFound(assoc, hreq[h].id)
              /\ dbLock' = "free"
              /\ Respond(h, 404)
           \/ /\ sid \in services
              /\ \/ assoc' = Append(assoc, [iid |-> hreq[h].id, sid |-> sid])
                 \/ UNCHANGED assoc
              /\ hreq' = [hreq EXCEPT ![h].sids = rest]
              /\ IF rest = <<>>
                    THEN /\ hpc' = [hpc EXCEPT ![h] = "page"]
                         /\ dbLock' = "free"
                    ELSE UNCHANGED <<hpc, dbLock>>
    /\ UNCHANGED <<mainpc, devServer, dbVars, chan, closed, coordVars, tlock, services,
                   interventions, files, nreq, reloadVars>>

\* The path the handler writes its page to.
DetailPath(id) == InterventionPath(id)

\* fs::write(&path, intervention_page); then 201 CREATED.
\* The handler returns without touching ctx.regenerate_pages.
CreateInterventionPage(h) ==
    /\ Running
    /\ hpc[h] = "page"
    /\ files' = WriteFile(files, DetailPath(hreq[h].id), DetailPage(hreq[h]))
    /\ Respond(h, 201)
    /\ UNCHANGED <<mainpc, devServer, dbVars, chan, closed, coordVars, dbLock, tlock,
                   storeVars, nreq, reloadVars>>

\* A request arrives.
Request ==
    \E h \in Handlers :
        \/ IndexBegin(h)
        \/ CreateInterventionFormBegin(h)
        \/ CreateServiceBegin(h)
        \/ CreateInterventionBegin(h)

\* A handler that has a request goes on.
HandlerStep ==
    \E h \in Handlers :
        \/ HandlerLock(h)
        \/ IndexServices(h)
        \/ IndexInterventions(h)
        \/ CreateInterventionFormServices(h)
        \/ CreateServiceInsert(h)
        \/ CreateInterventionInsert(h)
        \/ CreateInterventionAssoc(h)
        \/ CreateInterventionPage(h)

\* ------------------------------------------------------------- hot reload
\* (SendAtOnce: a task that goes to its blocking_send from wherever it is, for
\* comparison.)
SendAtOnce(from, to) == [hr EXCEPT ![from] = hr[from] - 1, !["send"] = hr["send"] + 1]

\* A task leaves one statement of the closure for the next.
Move(from, to) == [hr EXCEPT ![from] = hr[from] - 1, ![to] = hr[to] + 1]

\* The watcher reports a change of a .css or .html file; the spawn_blocking
\* task starts with copy_static_files_to_cache_dir(&app.config).
ReloadEvent ==
    /\ mainpc = "serve" /\ devServer /\ ~closed
    /\ nreload < MaxReloads
    /\ nreload' = nreload + 1
    /\ hr' = [hr EXCEPT !.wlock = hr.wlock + 1]
    /\ files' = WriteFile(files, StaticPath, StaticFile)
    /\ UNCHANGED <<mainpc, devServer, dbVars, chan, closed, coordVars, dbLock, tlock,
                   storeVars, handlerVars>>

\* app.templates.write().unwrap()
ReloadWriteLock ==
    /\ Running
    /\ hr.wlock > 0
    /\ WriteLockable(tlock)
    /\ tlock' = "write"
    /\ hr' = Move("wlock", "reloading")
    /\ UNCHANGED <<mainpc, devServer, dbVars, chan, closed, coordVars, dbLock, storeVars,
                   files, handlerVars, nreload>>

\* .full_reload(), whose error is only logged; the write guard is released.
ReloadTemplates ==
    /\ Running
    /\ hr.reloading > 0
    /\ tlock' = "free"
    /\ hr' = Move("reloading", "send")
    /\ UNCHANGED <<mainpc, devServer, dbVars, chan, closed, coordVars, dbLock, storeVars,
                   files, handlerVars, nreload>>

\* app.regenerate_pages.blocking_send(())
ReloadSend ==
    /\ Running
    /\ hr.send > 0
    /\ chan < ChanCap
    /\ chan' = chan + 1
    /\ hr' = [hr EXCEPT !.send = hr.send - 1]
    /\ UNCHANGED <<mainpc, devServer, dbVars, closed, coordVars, dbLock, tlock, storeVars,
                   files, handlerVars, nreload>>

ReloadStep == ReloadWriteLock \/ ReloadTemplates \/ ReloadSend

\* ---------------------------------------------------------- specification
Next == Main \/ Coordinator \/ Request \/ HandlerStep \/ ReloadEvent \/ ReloadStep

Spec == Init /\ [][Next]_vars

\* The tokio runtime polls a task that can go on, and the threads of the
\* blocking pool run; requests and file changes come when they come.
Fairness ==
    /\ WF_vars(Main)
    /\ WF_vars(Coordinator)
    /\ WF_vars(HandlerStep)
    /\ WF_vars(ReloadStep)

\* Some task that can go on does: what is left of the fairness above when the
\* runtime is only known not to stop.
Progress == WF_vars(Main \/ Coordinator \/ HandlerStep \/ ReloadStep)

\* The runs in which the admin sends a request after the answer to the one
\* before: every request is served by h1.
RequestInTurn ==
    \/ IndexBegin("h1")
    \/ CreateInterventionFormBegin("h1")
    \/ CreateServiceBegin("h1")
    \/ CreateInterventionBegin("h1")

NextInTurn ==
    Main \/ Coordinator \/ RequestInTurn \/ HandlerStep \/ ReloadEvent \/ ReloadStep

FairSpec == Init /\ [][NextInTurn]_vars /\ Progress

\* ------------------------------------------ start-up on a populated database
\* db::open opens the database file of earlier runs: rows inserted by this
\* program, by its fixtures, or by a version of it with other encodings.
Dates == {1, 2}

\* Strings found in a status or severity column that this version does not
\* write: the `performance_issues` of the first schema.
OtherDbStrings == {"performance_issues"}

\* interventions_services when intervention i affects the services aff[i]:
\* the rows of intervention 1, then of intervention 2, ..., each by service id.
RECURSIVE AssocRows(_, _)
AssocRows(aff, n) ==
    IF n = 0 THEN <<>>
    ELSE LET sids == SelectSeq([s \in 1..MaxServices |-> s],
                               LAMBDA s : s \in aff[n])
         IN  AssocRows(aff, n - 1) \o [j \in 1..Len(sids) |->
                                          [iid |-> n, sid |-> sids[j]]]

\* Rows written by this version: any status, any date, any set of services.
StoredByThisVersion ==
    \E ns \in 0..MaxServices, n \in 0..MaxRows :
       \E st \in [1..n -> Statuses], d \in [1..n -> Dates],
          aff \in [1..n -> SUBSET (1..ns)] :
          /\ services = 1..ns
          /\ interventions = [i \in 1..n |->
                                [id |-> i, status |-> StatusToDbStr(st[i]),
                                 severity |-> SeverityToDbStr("FullOutage"),
                                 start_date |-> d[i]]]
          /\ assoc = AssocRows(aff, n)

\* Rows whose status and severity columns hold any of the strings above.
StoredByAnyVersion ==
    \E n \in 0..MaxRows :
       \E st \in [1..n -> {StatusToDbStr(v) : v \in Statuses} \cup OtherDbStrings],
          sv \in [1..n -> {SeverityToDbStr(v) : v \in Severities} \cup OtherDbStrings] :
          /\ services = {}
          /\ interventions = [i \in 1..n |->
                                [id |-> i, status |-> st[i], severity |-> sv[i],
                                 start_date |-> 1]]
          /\ assoc = <<>>

InitStored ==
    /\ InitTasks
    /\ Opened
    /\ devServer = FALSE
    /\ StoredByThisVersion \/ StoredByAnyVersion

\* The start-up render: real_main sends the first signal and the coordinator
\* renders the database as it found it.
NextStored == Main \/ IdleRecv \/ EnterSelect \/ RenderPass

SpecStored == InitStored /\ [][NextStored]_vars

\* --------------------------------- a later run, on a database with a service
\* db::open opens the database of a run in which the admin created a service;
\* the dev server is off, so the only signal is the one real_main sends.
InitRestart ==
    /\ InitTasks
    /\ Opened
    /\ devServer = FALSE
    /\ services = {1}
    /\ interventions = <<>>
    /\ assoc = <<>>

NextRestart == Main \/ IdleRecv \/ EnterSelect \/ RenderPass \/ Request \/ HandlerStep

SpecRestart == InitRestart /\ [][NextRestart]_vars

\* ------------------------------------------- any body for the intervention
\* The requests are POST /admin/api/intervention with any form body, on the
\* database that holds service 1, beside the start-up render.
AnyForm == \E h \in Handlers : CreateInterventionPost(h, AllForms)

NextForm ==
    \/ Main
    \/ IdleRecv
    \/ EnterSelect
    \/ RenderPass
    \/ AnyForm
    \/ \E h \in Handlers :
          \/ HandlerLock(h)
          \/ CreateInterventionInsert(h)
          \/ CreateInterventionAssoc(h)
          \/ CreateInterventionPage(h)

SpecForm == InitRestart /\ [][NextForm]_vars

\* ------------------------------------------------ db::open: the migrations
programVars == <<mainpc, devServer, chan, closed, coordVars, dbLock, tlock,
                 storeVars, files, handlerVars, reloadVars>>

\* The run returns `res` to db::open.
EndRun(res, stmts) ==
    mig' = [mig EXCEPT !.pc = "idle", !.res = res, !.stmts = stmts]

\* (NeverUpToDate: a migration that does not look at the version, for
\* comparison.)
NeverUpToDate(version) == FALSE

\* if latest_version >= 1 { return Ok(()) }
UpToDate(version) == version >= 1

\* The program is started: db::open connects and calls run_migrations, whose
\* m1::run begins with read_latest_migration.
OpenBegin ==
    /\ mig.pc = "idle"
    /\ mig.nrun < MaxRuns
    /\ mig' = [pc |-> "select", nrun |-> mig.nrun + 1, latest |-> 0, k |-> 0,
               stmts |-> 0, before |-> schema, res |-> "none"]
    /\ UNCHANGED <<schema, programVars>>

\* SELECT version FROM migrations, fetch_one: the first row, or an error (no
\* table, no row, or any other), which sends the run to
\* create_migration_table.
ReadLatestMigration ==
    /\ mig.pc = "select"
    /\ \/ /\ "migrations" \in schema.tables /\ schema.versions # <<>>
          /\ mig' = [mig EXCEPT !.pc = "check", !.latest = schema.versions[1]]
       \/ mig' = [mig EXCEPT !.pc = "create_migrations"]
    /\ UNCHANGED <<schema, programVars>>

\* CREATE TABLE migrations (version INT): an error when the table exists.
CreateMigrationTable ==
    /\ mig.pc = "create_migrations"
    /\ \/ /\ "migrations" \notin schema.tables
          /\ schema' = [schema EXCEPT !.tables = @ \cup {"migrations"}]
          /\ mig' = [mig EXCEPT !.pc = "insert_version", !.stmts = @ + 1]
       \/ /\ UNCHANGED schema
          /\ EndRun("err", mig.stmts + 1)
    /\ UNCHANGED programVars

\* INSERT INTO migrations (version) VALUES (0)
InsertVersion ==
    /\ mig.pc = "insert_version"
    /\ \/ /\ schema' = [schema EXCEPT !.versions = Append(@, 0)]
          /\ mig' = [mig EXCEPT !.pc = "reselect", !.stmts = @ + 1]
       \/ /\ UNCHANGED schema
          /\ EndRun("err", mig.stmts + 1)
    /\ UNCHANGED programVars

\* The second SELECT version FROM migrations, whose error is returned.
ReadLatestAgain ==
    /\ mig.pc = "reselect"
    /\ \/ /\ "migrations" \in schema.tables /\ schema.versions # <<>>
          /\ mig' = [mig EXCEPT !.pc = "check", !.latest = schema.versions[1]]
       \/ EndRun("err", mig.stmts)
    /\ UNCHANGED <<schema, programVars>>

\* m1::run compares latest_version with 1.
CheckVersion ==
    /\ mig.pc = "check"
    /\ IF UpToDate(mig.latest)
          THEN EndRun("ok", mig.stmts)
          ELSE mig' = [mig EXCEPT !.pc = "create", !.k = 1]
    /\ UNCHANGED <<schema, programVars>>

\* The next CREATE TABLE of m1::run: an error when the table exists.
CreateTable ==
    /\ mig.pc = "create"
    /\ LET t == SchemaTables[mig.k]
       IN  \/ /\ t \notin schema.tables
              /\ schema' = [schema EXCEPT !.tables = @ \cup {t}]
              /\ mig' = [mig EXCEPT !.stmts = @ + 1,
                                    !.k = IF mig.k < Len(SchemaTables)
                                          THEN mig.k + 1 ELSE 0,
                                    !.pc = IF mig.k < Len(SchemaTables)
                                           THEN "create" ELSE "update"]
           \/ /\ UNCHANGED schema
              /\ EndRun("err", mig.stmts + 1)
    /\ UNCHANGED programVars

\* UPDATE migrations SET version = 1 WHERE version = 0
UpdateVersion ==
    /\ mig.pc = "update"
    /\ \/ /\ schema' = [schema EXCEPT !.versions =
                            [i \in 1..Len(@) |-> IF @[i] = 0 THEN 1 ELSE @[i]]]
          /\ EndRun("ok", mig.stmts + 1)
       \/ /\ UNCHANGED schema
          /\ EndRun("err", mig.stmts + 1)
    /\ UNCHANGED programVars

\* The program is started, one time after the other, on a database file that
\* did not exist; a start ends when db::open returns.
InitMigrate ==
    /\ InitTasks
    /\ devServer = FALSE
    /\ services = {}
    /\ interventions = <<>>
    /\ assoc = <<>>
    /\ schema = FreshDb
    /\ mig = NoRun

NextMigrate ==
    \/ OpenBegin
    \/ ReadLatestMigration
    \/ CreateMigrationTable
    \/ InsertVersion
    \/ ReadLatestAgain
    \/ CheckVersion
    \/ CreateTable
    \/ UpdateVersion

SpecMigrate == InitMigrate /\ [][NextMigrate]_vars

\* ------------------------------------- file changes faster than the renders
\* The watcher reports one change after the other, each when the task of the
\* one before is over, during a time in which the coordinator's thread does
\* not run (it is inside the synchronous end of a render, or not scheduled).
FloodEvent ==
    /\ mainpc = "serve" /\ devServer /\ ~closed
    /\ hr.wlock = 0 /\ hr.reloading = 0 /\ hr.send = 0
    /\ nreload <= ChanCap
    /\ nreload' = nreload + 1
    /\ hr' = [hr EXCEPT !.wlock = hr.wlock + 1]
    /\ files' = WriteFile(files, StaticPath, StaticFile)
    /\ UNCHANGED <<mainpc, devServer, dbVars, chan, closed, coordVars, dbLock, tlock,
                   storeVars, handlerVars>>

NextFlood == Main \/ FloodEvent \/ ReloadStep

SpecFlood == Init /\ [][NextFlood]_vars

\* --------------------------------------------- pages() on a closed channel
\* Every Sender of the channel is dropped. real_main keeps its Sender in the
\* AppContext for as long as the process runs, so this step belongs to no run
\* of the program: it is what a caller of pages(app, receiver) can do.
Close ==
    /\ mainpc = "serve" /\ ~closed
    /\ hr.wlock = 0 /\ hr.reloading = 0 /\ hr.send = 0
    /\ closed' = TRUE
    /\ UNCHANGED <<mainpc, devServer, dbVars, chan, coordVars, dbLock, tlock, storeVars,
                   files, handlerVars, reloadVars>>

\* else branch: receiver.recv().await returned None: break.
IdleRecvNone ==
    /\ Running /\ ~cdone /\ ~start
    /\ chan = 0 /\ closed
    /\ cdone' = TRUE
    /\ UNCHANGED <<mainpc, devServer, dbVars, chan, closed, start, rpc, r, live, lastRes,
                   nStart, nRecvFlight, dbLock, tlock, storeVars, files,
                   handlerVars, reloadVars>>

\* First arm of the biased select!: recv() is ready with None, which the
\* pattern `_` matches as well: start = true; continue.
SelectRecvNone ==
    /\ Running /\ ~cdone /\ start
    /\ rpc \in AwaitPoints
    /\ chan = 0 /\ closed
    /\ start' = RecvArm(rpc).start
    /\ rpc' = RecvArm(rpc).rpc
    /\ r' = NoRender
    /\ live' = DropRender(live)
    /\ dbLock' = UnlockedByDrop
    /\ UNCHANGED <<mainpc, devServer, dbVars, chan, closed, cdone, lastRes, nStart,
                   nRecvFlight, tlock, storeVars, files, handlerVars, reloadVars>>

CoordinatorClosed == IdleRecvNone \/ SelectRecvNone

NextClose == Next \/ Close \/ CoordinatorClosed

SpecClose == Init /\ [][NextClose]_vars

FairClose == SpecClose /\ Fairness /\ WF_vars(CoordinatorClosed)

\* ------------------------------------------------------------------ claims
\* regenerate_all returned in this step (the second arm of the select!).
Completing == InFlight /\ rpc' = "none" /\ nStart' = 0

\* The recv() arm of the select! dropped a render that was in flight.
Interrupting == InFlight /\ rpc' = "none" /\ nStart' # 0

\* C1: at most one render pass exists at any instant; a render that is in
\* flight is the only regenerate_all future there is.
C1_AtMostOneRender == live <= 1 /\ (InFlight => live = 1)

\* A render is in flight after an earlier one was interrupted.
C1_Witness == InFlight /\ nStart >= 2 /\ live = 1

\* C2: every signal in the channel is eventually received, and a render is then
\* first polled at a moment when no signal is left unreceived.
C2_NoDroppedSignal == (chan > 0) ~> (chan = 0 /\ rpc = "lock")

\* A signal waits in the channel while a render is in flight.
C2_Witness == chan > 0 /\ InFlight

RenderOfStore ==
    LET rr == [svc |-> ServiceGetAll, ints |-> InterventionGetAll,
               ctx |-> [i \in 1..Len(InterventionGetAll) |->
                           InterventionCtx(InterventionGetAll[i],
                               GetServiceIds(InterventionGetAll[i].id))]]
        ongoing == SelectSeq([i \in 1..Len(rr.ints) |-> i],
                             LAMBDA i : IsOngoing(rr.ints[i]))
    IN  File("page",
             [k \in 1..Len(rr.svc) |-> ServiceCtx(rr, rr.svc[k])],
             rr.ctx,
             [j \in 1..Len(ongoing) |-> rr.ctx[ongoing[j]]])

Quiescent ==
    /\ mainpc = "serve" /\ chan = 0 /\ ~start /\ rpc = "none" /\ ~cdone
    /\ \A h \in Handlers : hpc[h] = "idle"
    /\ hr.wlock = 0 /\ hr.reloading = 0 /\ hr.send = 0

C6_MutationsAreRendered ==
    (Quiescent /\ lastRes = "ok") => files[IndexPath] = RenderOfStore

\* C7 as stated: once real_main has made its start-up copy, a file of
\* cache_dir changes only in a step of the coordinator's render.
C7_CoordinatorOnlyWriter ==
    [][files' # files => (mainpc = "copy" \/ rpc \in {"write", "writing"})]_vars

\* C8: a render that returns an error leaves the coordinator where a
\* successful one does: out of the select!, start = false, still looping, the
\* db mutex released, no future left, and every signal still in the channel.
C8_ErrorLikeSuccess ==
    [][(Completing /\ lastRes' # "ok")
         => /\ ~start' /\ ~cdone' /\ rpc' = "none" /\ live' = 0
            /\ chan' = chan
            /\ dbLock' # "render"]_vars

\* After a failed render, a later signal has started another render.
C8_Witness == lastRes \notin {"none", "ok"} /\ InFlight /\ ~cdone

\* C9 as stated, first half: once every Sender is dropped, pages() returns.
C9_ClosedTerminates == closed ~> cdone

\* C10: a pass that returns an error from a Store read or from the lookup of
\* an associated service leaves index.html as it was when the pass started.
C10_FailedPassKeepsIndex ==
    [][(Completing /\ rpc \in {"services", "interventions", "assoc"})
         => (lastRes' \in {"store", "unknown service"}
             /\ files'[IndexPath] = r.before
             /\ files'[IndexPath] = files[IndexPath])]_vars

\* A pass failed while index.html held an earlier page, and it still does.
C10_Witness ==
    /\ lastRes = "store" /\ ~InFlight
    /\ files[IndexPath].kind = "page"

\* C11 as stated: whenever a reader asks for the home page while it exists, it
\* gets a complete page, the previous one or the new one, never an empty or
\* half-written file; so also after a write that failed.
C11_ReadersSeeWholePages ==
    GetRoot(files).status = 200 => GetRoot(files).body.kind = "page"

\* The page the renderer wrote last.
Page == files[IndexPath]

\* C12 as stated: in the intervention list of a rendered page an intervention
\* with a later start_date comes before one with an earlier start_date.
C12_NewestFirst ==
    Page.kind = "page"
        => \A i, j \in 1..Len(Page.interventions) :
              i < j => Page.interventions[i].start_date
                          >= Page.interventions[j].start_date

\* The rows of interventions_services that tie service `sid` to an
\* intervention stored with status `st`.
Ties(sid, st) ==
    {a \in 1..Len(assoc) :
        /\ assoc[a].sid = sid
        /\ \E i \in 1..Len(interventions) :
              /\ interventions[i].id = assoc[a].iid
              /\ interventions[i].status = StatusToDbStr(st)}

\* C13: on a rendered page every service of the Store has a section, whose
\* class is "error" when an Ongoing intervention is tied to the service, else
\* "warning" when a Planned one is, else "success", and whose ongoing and
\* planned lists have one entry for each such tie.
C13_SectionClass ==
    Page.kind = "page"
        => /\ Len(Page.services) = Cardinality(services)
           /\ \A k \in 1..Len(Page.services) :
                 LET sc == Page.services[k]
                 IN  /\ sc.id \in services
                     /\ sc.section_class =
                            IF Ties(sc.id, "Ongoing") # {} THEN "error"
                            ELSE IF Ties(sc.id, "Planned") # {} THEN "warning"
                            ELSE "success"
                     /\ Len(sc.ongoing) = Cardinality(Ties(sc.id, "Ongoing"))
                     /\ Len(sc.planned) = Cardinality(Ties(sc.id, "Planned"))

\* A page shows a service as "error" though a Planned intervention is tied to
\* it too: one ongoing entry, one planned entry.
C13_Witness ==
    /\ Page.kind = "page"
    /\ \E k \in 1..Len(Page.services) :
          /\ Page.services[k].section_class = "error"
          /\ Len(Page.services[k].ongoing) = 1
          /\ Len(Page.services[k].planned) = 1

\* C14: the page a successful pass writes is the page of the Store as it is
\* when the pass returns, whatever was rendered before, however many renders
\* were started for it and whatever signals were received.
C14_PageOfStoreOnly ==
    [][(Completing /\ lastRes' = "ok") => files'[IndexPath] = RenderOfStore]_vars

\* A pass wrote again the page that was there, after a render was dropped.
C14_Witness ==
    /\ lastRes = "ok" /\ rpc = "writing" /\ nStart >= 2
    /\ r.before.kind = "page" /\ r.content = r.before

C16_SendNeverWaits == (mainpc = "send" \/ hr.send > 0) => chan < ChanCap

\* The strings a status or severity column may hold.
DbStrings ==
    {StatusToDbStr(v) : v \in Statuses} \cup {SeverityToDbStr(v) : v \in Severities}
        \cup OtherDbStrings \cup {"", "Planned", "full-outage"}

\* C17: from_db_str(to_db_str(v)) = v for every variant, to_db_str is
\* injective, from_db_str fails on every other string, and the rows a pass
\* has decoded encode back to the stored columns.
C17_RoundTrip ==
    /\ \A v \in Statuses : StatusFromDbStr(StatusToDbStr(v)) = v
    /\ \A v \in Severities : SeverityFromDbStr(SeverityToDbStr(v)) = v
    /\ \A v, w \in Statuses : StatusToDbStr(v) = StatusToDbStr(w) => v = w
    /\ \A v, w \in Severities : SeverityToDbStr(v) = SeverityToDbStr(w) => v = w
    /\ \A x \in DbStrings \ {StatusToDbStr(v) : v \in Statuses} :
          StatusFromDbStr(x) = DecodeError
    /\ \A x \in DbStrings \ {SeverityToDbStr(v) : v \in Severities} :
          SeverityFromDbStr(x) = DecodeError
    /\ \A i \in 1..Len(r.ints) :
          /\ StatusToDbStr(r.ints[i].status) = interventions[i].status
          /\ SeverityToDbStr(r.ints[i].severity) = interventions[i].severity

\* A pass has decoded two rows of different status.
C17_Witness ==
    /\ rpc = "assoc" /\ Len(r.ints) >= 2
    /\ r.ints[1].status # r.ints[2].status

\* C18 as stated: a pass that reads a row it cannot decode returns an error,
\* writes nothing, and the coordinator goes on.
C18_UndecodableRowFailsPass ==
    [][(rpc = "interventions" /\ rpc' = "none"
          /\ \E i \in 1..Len(interventions) : ~Decodable(interventions[i]))
         => (lastRes' = "store" /\ ~cdone' /\ files' = files)]_vars

\* C19: signals received before the render is first polled start no render,
\* and the render is first polled only when no signal is left in the channel:
\* a burst that is queued by then gets one render start.
C19_BurstOneRender ==
    [][/\ (~InFlight /\ chan' < chan)
            => (start' /\ nStart' = nStart /\ nRecvFlight' = nRecvFlight)
       /\ nStart' = nStart + 1 => (chan = 0 /\ nStart = nRecvFlight)]_vars

\* Three signals were sent and received, and one render has been started.
C19_Witness ==
    /\ nreload = 2 /\ hr.send = 0 /\ hr.wlock = 0 /\ hr.reloading = 0
    /\ chan = 0 /\ lastRes = "none" /\ nStart = 1 /\ nRecvFlight = 0
    /\ rpc = "lock"

\* C20: the coordinator has a render (built or in flight) only while start is
\* true; start is false at first, becomes true only by receiving a signal,
\* and is false again when a render has returned.
C20_RenderOnlyOnSignal ==
    [][/\ rpc' # "none" => start'
       /\ (~start /\ start') => chan' = chan - 1
       /\ Completing => (~start' /\ rpc' = "none")]_vars

\* A render has returned, nothing was sent since, and the coordinator idles.
C20_Witness ==
    /\ lastRes = "ok" /\ ~start /\ rpc = "none" /\ chan = 0
    /\ hr.wlock = 0 /\ hr.reloading = 0 /\ hr.send = 0

\* The ids of the interventions stored with status `st` that a row of
\* interventions_services ties to service `sid`.
TiedIds(sid, st) == {assoc[a].iid : a \in Ties(sid, st)}

\* The ids of a list of ShortInterventionCtx, and the position of an
\* intervention in the page's global list.
IdsOf(list) == {list[j].id : j \in 1..Len(list)}
PagePos(id) == CHOOSE i \in 1..Len(Page.interventions) : Page.interventions[i].id = id

\* The entries of a list follow the order of the page's global list.
InGlobalOrder(list) ==
    \A i, j \in 1..Len(list) : i < j => PagePos(list[i].id) <= PagePos(list[j].id)

\* C21: on a rendered page, the ongoing list of a service holds exactly the
\* interventions tied to it whose status is Ongoing, its planned list exactly
\* those whose status is Planned; the two are disjoint, each follows the order
\* of the global intervention list, and an intervention tied to no service is
\* in no list.
C21_ListsPerService ==
    Page.kind = "page"
        => \A k \in 1..Len(Page.services) :
              LET sc == Page.services[k]
              IN  /\ IdsOf(sc.ongoing) = TiedIds(sc.id, "Ongoing")
                  /\ IdsOf(sc.planned) = TiedIds(sc.id, "Planned")
                  /\ IdsOf(sc.ongoing) \cap IdsOf(sc.planned) = {}
                  /\ InGlobalOrder(sc.ongoing)
                  /\ InGlobalOrder(sc.planned)
                  /\ \A id \in IdsOf(sc.ongoing) \cup IdsOf(sc.planned) :
                        \E a \in 1..Len(assoc) : assoc[a].iid = id

\* A page lists two ongoing interventions of one service, in the order of the
\* global list, while its planned list is empty.
C21_Witness ==
    /\ Page.kind = "page"
    /\ \E k \in 1..Len(Page.services) :
          /\ Len(Page.services[k].ongoing) = 2
          /\ Page.services[k].ongoing[1].id # Page.services[k].ongoing[2].id
          /\ Page.services[k].planned = <<>>

\* C22: a reload and a render's evaluation of the templates never overlap:
\* while the render holds the read lock no reload is inside full_reload, while
\* a reload holds the write lock (one at a time) the render is not evaluating,
\* and the templates a render evaluates are those of the last reload that
\* released the write lock before the render took the read lock.
C22_ReloadExcludesRender ==
    /\ tlock = "read" <=> rpc = "rendering"
    /\ tlock = "write" <=> hr.reloading > 0
    /\ hr.reloading <= 1
    /\ rpc = "rendering" => (hr.reloading = 0 /\ r.tera = Templates)

\* A render evaluates the templates of the second reload while no reload is
\* waiting or running.
C22_Witness ==
    /\ rpc = "rendering" /\ r.tera = 2
    /\ hr.wlock = 0 /\ hr.reloading = 0

\* The tasks that are between taking the db mutex and dropping its guard, by
\* their position in the code: the render from its first query to the end of
\* regenerate_index, a handler inside its block of queries.
ConnectionUsers ==
    {u \in {"render"} : rpc \in {"services", "interventions", "assoc", "template",
                                  "rendering", "write", "writing"}}
        \cup {h \in Handlers : hpc[h] \in {"services", "interventions", "insert",
                                            "assoc"}}

\* C23: at most one task, the render or one admin handler (index,
\* create_service, create_intervention_form, create_intervention), is inside
\* its use of the Store connection, and it is the holder of the mutex.
C23_ConnectionSerialized ==
    /\ Cardinality(ConnectionUsers) <= 1
    /\ \A u \in ConnectionUsers : dbLock = u
    /\ ConnectionUsers = {} => dbLock = "free"

\* A handler is inside its queries while the render waits for the mutex.
C23_Witness ==
    /\ \E h \in Handlers : ConnectionUsers = {h}
    /\ rpc = "lock"

\* The pass has read the table (it is past that query and has not returned).
HasReadServices ==
    rpc \in {"interventions", "assoc", "template", "rendering", "write", "writing"}
HasReadInterventions ==
    rpc \in {"assoc", "template", "rendering", "write", "writing"}

\* C24: what a pass has read is the Store as it is: no insert has happened
\* since its first query, the services it found for an intervention are all
\* the rows of interventions_services of that intervention, and it has read no
\* intervention of a create_intervention that is still inside its loop over
\* the services.
C24_ConsistentSnapshot ==
    /\ HasReadServices => r.svc = ServiceGetAll
    /\ HasReadInterventions
          => /\ r.ints = InterventionGetAll
             /\ \A i \in 1..Len(r.ctx) :
                   r.ctx[i].services = GetServiceIds(r.ints[i].id)
             /\ \A h \in Handlers :
                   hpc[h] = "assoc"
                      => \A i \in 1..Len(r.ints) : r.ints[i].id # hreq[h].id

\* A pass has read an intervention together with the association its request
\* inserted, and is evaluating the template.
C24_Witness ==
    /\ rpc = "rendering"
    /\ Len(r.ctx) = 1 /\ r.ctx[1].services = <<1>>

\* A task of the program can take a step.
TaskStep == Main \/ Coordinator \/ HandlerStep \/ ReloadStep

\* Some task is at a statement that waits for another task: a lock() or
\* read() or write() that has not returned, or a send.
Waiting ==
    \/ mainpc = "send"
    \/ rpc \in {"lock", "template"}
    \/ \E h \in Handlers : hpc[h] = "lock"
    \/ hr.wlock > 0
    \/ hr.send > 0

\* C25: whenever a task waits for the db mutex, a template lock or room in
\* the channel, some task can take a step; and when the db mutex or the
\* template lock is held, a moment comes at which neither is: every guard
\* taken is released.
C25_NoDeadlock ==
    /\ [](Waiting => ENABLED TaskStep)
    /\ (dbLock # "free" \/ tlock # "free") ~> (dbLock = "free" /\ tlock = "free")

\* A chain of waits: a handler waits for the db mutex, which the render holds
\* while it waits for the template lock, which a reload holds.
C25_Witness ==
    /\ \E h \in Handlers : hpc[h] = "lock"
    /\ dbLock = "render" /\ rpc = "template"
    /\ tlock = "write"

\* C26: a render dropped by a signal has written nothing (index.html, like
\* every file, is as it was when the render was first polled) and holds no
\* lock afterwards, whether it was waiting for the db mutex or holding it.
C26_InterruptedLeavesNothing ==
    [][Interrupting
         => /\ files' = files
            /\ files'[IndexPath] = r.before
            /\ dbLock' # "render"
            /\ (dbLock = "render" => dbLock' = "free")
            /\ tlock' = tlock /\ tlock # "read"
            /\ r' = NoRender /\ live' = 0]_vars

\* A render was dropped after an earlier one had written a page: the page is
\* there and the db mutex is free.
C26_Witness ==
    /\ start /\ rpc = "none" /\ nRecvFlight >= 1
    /\ files[IndexPath].kind = "page"
    /\ dbLock = "free"

\* C27: once the static files are copied, real_main sends one signal, and
\* only that one, to the coordinator, which is running; a render is then
\* first polled, with no request and no file change needed; and after a
\* render that returned Ok, index.html holds a page until the next write.
C27_StartupRender ==
    /\ (mainpc = "send") ~> (rpc = "lock")
    /\ [][mainpc' # mainpc
            => \/ mainpc = "copy" /\ chan' = chan
               \/ /\ mainpc = "send" /\ mainpc' = "serve"
                  /\ files[StaticPath] = StaticFile
                  /\ chan = 0 /\ chan' = 1 /\ ~cdone]_vars
    /\ []((lastRes = "ok" /\ rpc # "writing") => files[IndexPath].kind = "page")

\* The site is generated and no request or file change has happened.
C27_Witness ==
    /\ nreq = 0 /\ nreload = 0
    /\ lastRes = "ok" /\ rpc = "none" /\ ~start
    /\ files[IndexPath].kind = "page"

\* Handler h answers 404 in this step.
NotFound(h) == hpc[h] = "assoc" /\ hreq'[h].code = 404

\* C28: create_intervention answers 404 at the first listed service that has
\* no row, when the intervention is already inserted and tied to the listed
\* services before it (those whose add_service succeeded): the row and the
\* ties stay in the Store, no table ever loses a row, and no <id>.html is
\* written for the intervention.
C28_NotFoundKeepsPartialInsert ==
    [][/\ \A h \in Handlers :
             NotFound(h)
                => /\ Head(hreq[h].sids) \notin services
                   /\ \E i \in 1..Len(interventions) :
                         interventions[i].id = hreq[h].id
                   /\ \A a \in 1..Len(assoc) :
                         assoc[a].iid = hreq[h].id => assoc[a].sid \in services
                   /\ storeVars' = storeVars
                   /\ files' = files
                   /\ files[InterventionPath(hreq[h].id)] = NoFile
                   /\ dbLock' = "free"
       /\ services \subseteq services'
       /\ Len(interventions') >= Len(interventions)
       /\ SubSeq(interventions', 1, Len(interventions)) = interventions
       /\ Len(assoc') >= Len(assoc)
       /\ SubSeq(assoc', 1, Len(assoc)) = assoc]_vars

\* A request for services 1 and 2 was answered 404: intervention 1 is stored,
\* tied to service 1, and has no page.
C28_Witness ==
    /\ \E h \in Handlers : hpc[h] = "idle" /\ hreq[h].code = 404
    /\ Len(interventions) = 1
    /\ assoc = <<[iid |-> 1, sid |-> 1]>>
    /\ files[InterventionPath(1)] = NoFile

\* A body that lacks one of the five fields, or carries a value that does not
\* parse, or a severity that is none of the three.
BadForm(form) ==
    \/ "missing" \in {form.title, form.description, form.start_date,
                       form.estimated_duration, form.severity}
    \/ "bad" \in {form.start_date, form.estimated_duration}
    \/ \E i \in 1..Len(form.services) : form.services[i] < 0
    \/ form.severity \notin {"missing", "partial-outage", "full-outage",
                              "performance-issue"}

\* A request arrives in this step, and handler h answers it 400.
BadRequest(h) ==
    /\ nreq' = nreq + 1
    /\ hpc[h] = "idle" /\ hreq'[h].code = 400
    /\ \A g \in Handlers \ {h} : hreq'[g] = hreq[g]

\* C29: try_from fails on exactly the bodies that lack a field or carry a
\* value that does not parse or an unknown severity; the handler then answers
\* 400 in the step in which the request arrives, and Store, files, channel
\* and mutex are as before; a request that is served has a parsed payload.
C29_BadFormIs400 ==
    /\ \A form \in AllForms : BadForm(form) <=> TryFrom(form) = FormError
    /\ [][\A h \in Handlers :
             /\ BadRequest(h)
                  => /\ hpc'[h] = "idle"
                     /\ storeVars' = storeVars
                     /\ files' = files
                     /\ chan' = chan
                     /\ dbLock' = dbLock
             /\ (hpc[h] = "idle" /\ hreq'[h].kind = "intervention")
                  => (hreq'[h].severity \in Severities
                      /\ hreq'[h].start_date \in {ParseDate(d) : d \in FormDates}
                      /\ hreq'[h].start_date > 0
                      /\ hreq'[h].sids \in SidChoices)]_vars

\* The only request so far was answered 400: the Store has no intervention
\* and cache_dir no <id>.html.
C29_Witness ==
    /\ \E h \in Handlers : hpc[h] = "idle" /\ hreq[h].code = 400
    /\ nreq = 1
    /\ interventions = <<>> /\ assoc = <<>>
    /\ \A i \in 1..MaxRequests : files[InterventionPath(i)] = NoFile

\* A run of the migrations returns in this step.
RunEnds == mig.pc # "idle" /\ mig'.pc = "idle"

\* C30: `migrations` holds at most one version, 0 or 1, and version 1 only
\* beside all the tables; no step lowers the version or removes a table; a
\* run that returns Ok leaves the migrated database; a run that reads a
\* version >= 1 returns Ok at once, having issued no statement and changed
\* nothing; and no run changes a migrated database.
C30_MigrationsIdempotent ==
    /\ [](/\ Len(schema.versions) <= 1
          /\ \A i \in 1..Len(schema.versions) : schema.versions[i] \in {0, 1}
          /\ 1 \in {schema.versions[i] : i \in 1..Len(schema.versions)}
                => schema = MigratedDb)
    /\ [][/\ schema.tables \subseteq schema'.tables
          /\ Len(schema'.versions) >= Len(schema.versions)
          /\ \A i \in 1..Len(schema.versions) :
                schema'.versions[i] >= schema.versions[i]
          /\ (RunEnds /\ mig'.res = "ok") => schema' = MigratedDb
          /\ (mig.pc = "check" /\ mig.latest >= 1)
                => /\ RunEnds /\ mig'.res = "ok"
                   /\ mig'.stmts = 0
                   /\ schema' = mig.before
          /\ mig.before = MigratedDb => schema' = MigratedDb]_vars

\* The second start on the database has returned Ok without a statement: the
\* first had migrated it.
C30_Witness ==
    /\ mig.pc = "idle" /\ mig.nrun = 2 /\ mig.res = "ok" /\ mig.stmts = 0
    /\ schema = MigratedDb

====
